---- MODULE Spec2Model ----
(***************************************************************************)
(* A model of src/src/llm/http_llm_calculator.cc: the HttpLLMCalculator    *)
(* node (Open / Process / Close), the OpenAIChatCompletionsRequest parser, *)
(* the TextStreamer incremental detokenizer and the two response           *)
(* serializers, together with the collaborators the node talks to (the     *)
(* continuous-batching pipeline's generation handle, the tokenizer and the *)
(* host scheduler that delivers payload and loopback packets).             *)
(*                                                                         *)
(* Text is a sequence of bytes (std::string); a JSON object written by the *)
(* rapidjson Writer is the sequence of its <<key, value>> members in the   *)
(* order they were written.                                                *)
(***************************************************************************)
EXTENDS Integers, Sequences, FiniteSets, TLC

\* ------------------------------------------------------------------ bounds

\* Largest number of tokens the engine generates for one request (all sequences).
MaxGen == 3
\* Largest number of sequences the engine returns for one request.
MaxSeqs == 3
\* Largest value of the wall clock (seconds since epoch) read by a tick.
MaxClock == 2
\* How many times the host may deliver a request payload to one instance.
MaxPayloads == 2
MaxSpurious == 1
MaxPut == 4

\* ------------------------------------------------------------------ bytes

\* '\n' (line 331) and ' ' (line 338)
NEWLINE == 10
SPACE == 32
\* U+FFFD in UTF-8 (line 336), three bytes
REPLACEMENT == <<239, 191, 189>>
ReplacementLen == 3
\* 0xC3 0xA9 is the UTF-8 encoding of U+00E9
LeadByte == 195
ContByte == 169

NULL == "null"

\* std::optional / a possibly-null shared_ptr: <<>> is nullopt / nullptr.
None == <<>>
Some(x) == <<x>>
IsSet(o) == o # <<>>
Val(o) == o[1]

\* ------------------------------------------------------------------ tokenizer

\* The token ids the engine may generate, and the bytes of each token.
TokHel == 1
TokLoSp == 2
TokWorld == 3
TokNl == 4
TokLead == 5
TokCont == 6
TokSpLead == 7
Vocab == {TokHel, TokLoSp, TokWorld, TokNl, TokLead, TokCont}

Piece(t) ==
    CASE t = TokHel -> <<104, 101, 108>>
      [] t = TokLoSp -> <<108, 111, SPACE>>
      [] t = TokWorld -> <<119, 111, 114, 108, 100>>
      [] t = TokNl -> <<NEWLINE>>
      [] t = TokLead -> <<LeadByte>>
      [] t = TokCont -> <<ContByte>>
      [] t = TokSpLead -> <<SPACE, LeadByte>>

RECURSIVE Bytes(_)
Bytes(tokens) ==
    IF tokens = <<>> THEN <<>> ELSE Piece(Head(tokens)) \o Bytes(Tail(tokens))

\* UTF-8 decoding with replacement: a lead byte without its continuation byte,
\* and a continuation byte without a lead byte, become U+FFFD.
RECURSIVE Utf8Replace(_)
Utf8Replace(bs) ==
    IF bs = <<>> THEN <<>>
    ELSE IF Head(bs) = LeadByte
         THEN IF Len(bs) >= 2 /\ bs[2] = ContByte
              THEN <<LeadByte, ContByte>> \o Utf8Replace(Tail(Tail(bs)))
              ELSE REPLACEMENT \o Utf8Replace(Tail(bs))
         ELSE IF Head(bs) = ContByte
              THEN REPLACEMENT \o Utf8Replace(Tail(bs))
              ELSE <<Head(bs)>> \o Utf8Replace(Tail(bs))

\* tokenizer->decode(tokens)
decode(tokens) == Utf8Replace(Bytes(tokens))

\* ------------------------------------------------------------------ TextStreamer

\* std::string{text.data() + from, text.size() - from}
Suffix(text, from) == SubSeq(text, from + 1, Len(text))

EndsWithReplacement(text) ==
    /\ Len(text) >= ReplacementLen
    /\ SubSeq(text, Len(text) - ReplacementLen + 1, Len(text)) = REPLACEMENT

HasSpaceFrom(text, from) ==
    /\ Len(text) > from
    /\ \E k \in (from + 1)..Len(text) : text[k] = SPACE

NewStreamer == [tokenCache |-> <<>>, printLen |-> 0]

\* Mutant: the newline branch clears the token cache but keeps printLen.
put_KeepsPrintLen(st, token) ==
    LET cache == Append(st.tokenCache, token)
        text == decode(cache)
    IN  IF text # <<>> /\ text[Len(text)] = NEWLINE
        THEN [streamer |-> [tokenCache |-> <<>>, printLen |-> st.printLen],
              has |-> TRUE, chunk |-> Suffix(text, st.printLen)]
        ELSE IF EndsWithReplacement(text)
        THEN [streamer |-> [tokenCache |-> cache, printLen |-> st.printLen],
              has |-> FALSE, chunk |-> <<>>]
        ELSE IF HasSpaceFrom(text, st.printLen)
        THEN [streamer |-> [tokenCache |-> cache, printLen |-> Len(text)],
              has |-> TRUE, chunk |-> Suffix(text, st.printLen)]
        ELSE [streamer |-> [tokenCache |-> cache, printLen |-> st.printLen],
              has |-> FALSE, chunk |-> <<>>]

\* Mutant: the space test comes before the test for a trailing U+FFFD.
put_SpaceFirst(st, token) ==
    LET cache == Append(st.tokenCache, token)
        text == decode(cache)
    IN  IF text # <<>> /\ text[Len(text)] = NEWLINE
        THEN [streamer |-> [tokenCache |-> <<>>, printLen |-> 0],
              has |-> TRUE, chunk |-> Suffix(text, st.printLen)]
        ELSE IF HasSpaceFrom(text, st.printLen)
        THEN [streamer |-> [tokenCache |-> cache, printLen |-> Len(text)],
              has |-> TRUE, chunk |-> Suffix(text, st.printLen)]
        ELSE [streamer |-> [tokenCache |-> cache, printLen |-> st.printLen],
              has |-> FALSE, chunk |-> <<>>]

\* TextStreamer::put: the streamer after the call and the optional chunk
\* (has = FALSE is std::nullopt).
put(st, token) ==
    LET cache == Append(st.tokenCache, token)
        text == decode(cache)
    IN  IF text # <<>> /\ text[Len(text)] = NEWLINE
        THEN [streamer |-> [tokenCache |-> <<>>, printLen |-> 0],
              has |-> TRUE, chunk |-> Suffix(text, st.printLen)]
        ELSE IF EndsWithReplacement(text)
        THEN [streamer |-> [tokenCache |-> cache, printLen |-> st.printLen],
              has |-> FALSE, chunk |-> <<>>]
        ELSE IF HasSpaceFrom(text, st.printLen)
        THEN [streamer |-> [tokenCache |-> cache, printLen |-> Len(text)],
              has |-> TRUE, chunk |-> Suffix(text, st.printLen)]
        ELSE [streamer |-> [tokenCache |-> cache, printLen |-> st.printLen],
              has |-> FALSE, chunk |-> <<>>]

\* ------------------------------------------------------------------ JSON documents

\* A parsed JSON value (rapidjson::Value): its type tag and its value.  A number
\* is "int" when rapidjson classifies it as a 32-bit int (IsInt) and "double"
\* when it classifies it as floating point (IsDouble); a double's value is kept
\* in units of 2^-24, fine enough to tell a double from the float nearest to it.
\* An object is the sequence of its <<name, value>> members.
JAbsent == [t |-> "absent", v |-> NULL]
JNull == [t |-> "null", v |-> NULL]
JBool(b) == [t |-> "bool", v |-> b]
JInt(n) == [t |-> "int", v |-> n]
JDouble(x) == [t |-> "double", v |-> x]
JString(s) == [t |-> "string", v |-> s]
JArray(a) == [t |-> "array", v |-> a]
JObject(members) == [t |-> "object", v |-> members]

\* doc.FindMember(key): the first member of that name, JAbsent for MemberEnd().
RECURSIVE FindMember(_, _)
FindMember(members, key) ==
    IF members = <<>> THEN JAbsent
    ELSE IF Head(members)[1] = key THEN Head(members)[2]
    ELSE FindMember(Tail(members), key)

\* 1.0 in the unit of a double's value; below it every value is a float.
FloatOne == 16777216

\* The distance between neighbouring floats (24-bit significand) at magnitude a.
RECURSIVE Ulp(_)
Ulp(a) == IF a < FloatOne THEN 1 ELSE 2 * Ulp(a \div 2)

RoundToEven(a, u) ==
    LET q == a \div u
        rem == a % u
    IN  IF 2 * rem < u THEN q * u
        ELSE IF 2 * rem > u THEN (q + 1) * u
        ELSE IF q % 2 = 0 THEN q * u ELSE (q + 1) * u

\* The conversion of GetDouble() to the std::optional<float> field it is
\* assigned to (lines 53-59): the nearest float, ties to even.
ToFloat(x) == IF x < 0 THEN 0 - RoundToEven(0 - x, Ulp(0 - x)) ELSE RoundToEven(x, Ulp(x))

\* thresholds of the float range checks 2.0f and 1.0f (lines 229, 239)
TemperatureMax == 2 * FloatOne
TopPMax == FloatOne

\* ------------------------------------------------------------------ OpenAIChatCompletionsRequest

\* The request object as constructed (lines 47-63): every optional is nullopt.
NewRequest ==
    [ok |-> TRUE, stream |-> FALSE, messages |-> <<>>, model |-> "",
     maxTokens |-> None, diversityPenalty |-> None, repetitionPenalty |-> None,
     lengthPenalty |-> None, numReturnSequences |-> None, temperature |-> None,
     topP |-> None, topK |-> None, seed |-> None, bestOf |-> None,
     ignoreEOS |-> None]

Reject(r) == [r EXCEPT !.ok = FALSE]

\* One chat entry: chat[name] = value for every member, in order (lines 140-146);
\* ok = FALSE when a member's value is not a string.
RECURSIVE parseEntry(_, _)
parseEntry(members, chat) ==
    IF members = <<>> THEN [ok |-> TRUE, chat |-> chat]
    ELSE LET name == Head(members)[1]
             value == Head(members)[2]
         IN  IF value.t # "string" THEN [ok |-> FALSE, chat |-> chat]
             ELSE parseEntry(Tail(members),
                     [k \in (DOMAIN chat) \cup {name} |->
                         IF k = name THEN value.v ELSE chat[k]])

\* The loop over the messages array (lines 135-147): the entries parsed so far
\* stay in this->messages when an entry is rejected.
RECURSIVE parseMessagesLoop(_, _)
parseMessagesLoop(entries, msgs) ==
    IF entries = <<>> THEN [ok |-> TRUE, messages |-> msgs]
    ELSE IF Head(entries).t # "object" THEN [ok |-> FALSE, messages |-> msgs]
    ELSE LET e == parseEntry(Head(entries).v, <<>>)
         IN  IF ~e.ok THEN [ok |-> FALSE, messages |-> Append(msgs, e.chat)]
             ELSE parseMessagesLoop(Tail(entries), Append(msgs, e.chat))

parseStream(doc, r) ==
    LET it == FindMember(doc.v, "stream")
    IN  IF ~r.ok THEN r
        ELSE IF it.t = "absent" THEN r
        ELSE IF it.t # "bool" THEN Reject(r)
        ELSE [r EXCEPT !.stream = it.v]

parseMessages(doc, r) ==
    LET it == FindMember(doc.v, "messages")
    IN  IF ~r.ok THEN r
        ELSE IF it.t = "absent" THEN Reject(r)
        ELSE IF it.t # "array" THEN Reject(r)
        ELSE LET res == parseMessagesLoop(it.v, <<>>)
             IN  [r EXCEPT !.ok = res.ok, !.messages = res.messages]

parseModel(doc, r) ==
    LET it == FindMember(doc.v, "model")
    IN  IF ~r.ok THEN r
        ELSE IF it.t = "absent" THEN Reject(r)
        ELSE IF it.t # "string" THEN Reject(r)
        ELSE [r EXCEPT !.model = it.v]

parseMaxTokens(doc, r) ==
    LET it == FindMember(doc.v, "max_tokens")
    IN  IF ~r.ok THEN r
        ELSE IF it.t = "absent" THEN r
        ELSE IF it.t # "int" THEN Reject(r)
        ELSE IF it.v <= 0 THEN Reject([r EXCEPT !.maxTokens = Some(it.v)])
        ELSE [r EXCEPT !.maxTokens = Some(it.v)]

\* An optional field of one JSON type with no range check
\* (repetition_penalty, diversity_penalty, length_penalty: IsDouble;
\*  top_k, seed, best_of, n: IsInt; ignore_eos: IsBool).
parseTyped(doc, r, key, type, field) ==
    LET it == FindMember(doc.v, key)
    IN  IF ~r.ok THEN r
        ELSE IF it.t = "absent" THEN r
        ELSE IF it.t # type THEN Reject(r)
        ELSE [r EXCEPT ![field] = Some(IF type = "double" THEN ToFloat(it.v) ELSE it.v)]

\* An optional double with a range check (temperature, top_p).
parseRanged(doc, r, key, field, max) ==
    LET it == FindMember(doc.v, key)
    IN  IF ~r.ok THEN r
        ELSE IF it.t = "absent" THEN r
        ELSE IF it.t # "double" THEN Reject(r)
        ELSE LET f == ToFloat(it.v)
             IN  IF f < 0 \/ f > max THEN Reject([r EXCEPT ![field] = Some(f)])
                 ELSE [r EXCEPT ![field] = Some(f)]

\* stream, messages, model, max_tokens (lines 120-167), in that order.
parseGeneric(doc, r) ==
    parseMaxTokens(doc, parseModel(doc, parseMessages(doc, parseStream(doc, r))))

\* repetition_penalty, diversity_penalty, length_penalty (lines 195-221)
parsePenalties(doc, r) ==
    parseTyped(doc, parseTyped(doc, parseTyped(doc, r,
        "repetition_penalty", "double", "repetitionPenalty"),
        "diversity_penalty", "double", "diversityPenalty"),
        "length_penalty", "double", "lengthPenalty")

\* temperature, top_p, top_k, seed (lines 224-260)
parseSampling(doc, r) ==
    parseTyped(doc, parseTyped(doc, parseRanged(doc, parseRanged(doc, r,
        "temperature", "temperature", TemperatureMax),
        "top_p", "topP", TopPMax),
        "top_k", "int", "topK"),
        "seed", "int", "seed")

\* best_of, n, ignore_eos (lines 264-299)
parseBeam(doc, r) ==
    parseTyped(doc, parseTyped(doc, parseTyped(doc, r,
        "best_of", "int", "bestOf"),
        "n", "int", "numReturnSequences"),
        "ignore_eos", "bool", "ignoreEOS")

\* OpenAIChatCompletionsRequest::parse: the request after the call; ok is the
\* value returned.  Each step is skipped once an earlier one has returned false.
parse(doc) ==
    IF doc.t # "object" THEN Reject(NewRequest)
    ELSE parseBeam(doc, parseSampling(doc, parsePenalties(doc,
             parseGeneric(doc, NewRequest))))

\* Mutant: the value returned by parse() is not checked.
DecodeOk_ParseUnchecked(r) ==
    /\ Len(r.messages) >= 1
    /\ "content" \in DOMAIN r.messages[1]

\* The checks of Process that follow parse() (lines 429-431).
DecodeOk(r) ==
    /\ r.ok
    /\ Len(r.messages) >= 1
    /\ "content" \in DOMAIN r.messages[1]

\* ------------------------------------------------------------------ serializers

\* Mutant: the choice index is incremented before it is written (++i).
UnaryChoice_PreIncrement(index, completeResponse) ==
    JObject(<< <<"finish_reason", JString("stop")>>,
               <<"index", JInt(index + 1)>>,
               <<"logprobs", JNull>>,
               <<"message", JObject(<< <<"content", JString(completeResponse)>>,
                                       <<"role", JString("assistant")>> >>)>> >>)

\* HttpLLMCalculator::serializeUnaryResponse(const std::vector<std::string>&):
\* the members the Writer emits, in order.
UnaryChoice(index, completeResponse) ==
    JObject(<< <<"finish_reason", JString("stop")>>,
               <<"index", JInt(index)>>,
               <<"logprobs", JNull>>,
               <<"message", JObject(<< <<"content", JString(completeResponse)>>,
                                       <<"role", JString("assistant")>> >>)>> >>)

serializeUnaryResponse(completeResponses, created, model) ==
    JObject(<< <<"choices", JArray([k \in 1..Len(completeResponses) |->
                                       UnaryChoice(k - 1, completeResponses[k])])>>,
               <<"created", JInt(created)>>,
               <<"model", JString(model)>>,
               <<"object", JString("chat.completion")>> >>)

\* Mutant: the chunk is not written: delta.content is always the empty string.
serializeStreamingChunk_EmptyContent(chunkResponse, stop, created, model) ==
    JObject(<< <<"choices", JArray(<<
                   JObject(<< <<"finish_reason", IF stop THEN JString("stop") ELSE JNull>>,
                              <<"index", JInt(0)>>,
                              <<"logprobs", JNull>>,
                              <<"delta", JObject(IF stop THEN <<>>
                                                 ELSE << <<"content", JString(<<>>)>> >>)>> >>)
               >>)>>,
               <<"created", JInt(created)>>,
               <<"model", JString(model)>>,
               <<"object", JString("chat.completion.chunk")>> >>)

\* Mutant: the stop flag is not written: finish_reason is always null.
serializeStreamingChunk_NeverStop(chunkResponse, stop, created, model) ==
    JObject(<< <<"choices", JArray(<<
                   JObject(<< <<"finish_reason", JNull>>,
                              <<"index", JInt(0)>>,
                              <<"logprobs", JNull>>,
                              <<"delta", JObject(IF stop THEN <<>>
                                                 ELSE << <<"content", JString(chunkResponse)>> >>)>> >>)
               >>)>>,
               <<"created", JInt(created)>>,
               <<"model", JString(model)>>,
               <<"object", JString("chat.completion.chunk")>> >>)

\* HttpLLMCalculator::serializeStreamingChunk
serializeStreamingChunk(chunkResponse, stop, created, model) ==
    JObject(<< <<"choices", JArray(<<
                   JObject(<< <<"finish_reason", IF stop THEN JString("stop") ELSE JNull>>,
                              <<"index", JInt(0)>>,
                              <<"logprobs", JNull>>,
                              <<"delta", JObject(IF stop THEN <<>>
                                                 ELSE << <<"content", JString(chunkResponse)>> >>)>> >>)
               >>)>>,
               <<"created", JInt(created)>>,
               <<"model", JString(model)>>,
               <<"object", JString("chat.completion.chunk")>> >>)

\* A message that is not a JSON document: the literal [DONE] (line 489).
DoneMessage == [t |-> "raw", v |-> "[DONE]"]

\* packIntoServerSideEventMessage: "data: " << message << "\n\n"
packIntoServerSideEventMessage(message) == <<"data: ", message, "\n\n">>

\* ------------------------------------------------------------------ inputs

\* The calculator instances (graph nodes); each serves one request.
Instances == {1, 2}

\* Values of std::chrono::system_clock::now(), in seconds since the epoch.
Times == 1..MaxClock

\* Request documents the host may deliver.
Message == JObject(<< <<"role", JString("user")>>, <<"content", JString("hi")>> >>)
BaseMembers ==
    << <<"model", JString("m")>>, <<"messages", JArray(<<Message>>)>>,
       <<"max_tokens", JInt(4)>> >>
DocUnary == JObject(BaseMembers)
DocStream == JObject(BaseMembers \o << <<"stream", JBool(TRUE)>> >>)
DocBestOf == JObject(BaseMembers \o << <<"best_of", JInt(3)>> >>)
DocNotObject == JArray(<<>>)
DocNoModel == JObject(<< <<"messages", JArray(<<Message>>)>> >>)
DocEmptyMessages ==
    JObject(<< <<"model", JString("m")>>, <<"messages", JArray(<<>>)>> >>)
DocNoContent ==
    JObject(<< <<"model", JString("m")>>, <<"stream", JBool(TRUE)>>,
               <<"messages", JArray(<<JObject(<< <<"role", JString("user")>> >>)>>)>> >>)
DocBadTemperature ==
    JObject(BaseMembers \o << <<"stream", JBool(TRUE)>>, <<"temperature", JDouble(3 * FloatOne)>> >>)
Docs == {DocUnary, DocStream, DocBestOf, DocNotObject, DocNoModel,
         DocEmptyMessages, DocNoContent, DocBadTemperature}

\* ------------------------------------------------------------------ state

VARIABLES
    calc,         \* per instance: the HttpLLMCalculator fields (lines 355-367)
    pc,           \* per instance: "idle", or "pump" inside Process after line 449
    pipeline,     \* the shared pipeline: the generation handles, in add_request order
    notified,     \* per instance: number of notifyExecutorThread() calls it made
    outputs,      \* per instance: packets added to the output port
    loopOut,      \* per instance: packets added to the loopback port
    host,         \* per instance: the scheduler's view (lifecycle, packets to deliver)
    resourceMap,  \* the LLMNodeResourcesMap side packet: the node names it holds
    last,         \* per instance: the current or latest Process call: its inputs, its
                  \* result, and what the instance had emitted and submitted when it began
    trace,        \* per instance: tokens fed to the detokenizer, chunks it returned,
                  \* whether a Process call has returned an error, and the
                  \* calls made on the request, pipeline and handle, in order
    probe         \* a function called on its own: its input and what it returned

vars == <<calc, pc, pipeline, notified, outputs, loopOut, host, resourceMap, last, trace,
          probe>>

\* An HttpLLMCalculator as constructed (lines 355-367).
NewCalculator ==
    [nodeResources |-> FALSE, generationHandle |-> None, request |-> None,
     streamer |-> None, timestamp |-> 0, created |-> 0]

NoTick ==
    [payload |-> FALSE, loopback |-> FALSE, status |-> "NONE", branch |-> "none",
     why |-> "", out0 |-> 0, loop0 |-> 0, pipe0 |-> 0, notified0 |-> 0, ts0 |-> 0,
     pre |-> [request |-> FALSE, handle |-> FALSE, streamer |-> FALSE],
     stream0 |-> FALSE, status0 |-> "none", unread0 |-> <<>>]

\* No function is called on its own.
NoProbe == [input |-> None, result |-> None]

\* The instances in `active` as constructed, before Open.
Constructed(active) ==
    /\ calc = [i \in Instances |-> NewCalculator]
    /\ pc = [i \in Instances |-> "idle"]
    /\ pipeline = <<>>
    /\ notified = [i \in Instances |-> 0]
    /\ outputs = [i \in Instances |-> <<>>]
    /\ loopOut = [i \in Instances |-> <<>>]
    /\ host = [i \in Instances |->
                 [life |-> IF i \in active THEN "new" ELSE "absent",
                  payloads |-> 0, loopPending |-> 0, spurious |-> 0]]
    /\ resourceMap \in SUBSET active
    /\ last = [i \in Instances |-> NoTick]
    /\ trace = [i \in Instances |-> [fed |-> <<>>, puts |-> <<>>, failed |-> FALSE, ops |-> <<>>]]

InitFor(active) == probe = NoProbe /\ Constructed(active)

Init == InitFor({1})

\* ------------------------------------------------------------------ generation handle

\* pipeline->add_request(): a new handle, RUNNING, with nseq sequences.
NewHandle(owner, prompt, nseq) ==
    [owner |-> owner, prompt |-> prompt, status |-> "RUNNING",
     gen |-> [s \in 1..nseq |-> <<>>], rd |-> [s \in 1..nseq |-> 0]]

\* GenerationHandle::get_status()
get_status(h) == h.status

\* GenerationHandle::read(): per sequence, the one token generated since the
\* last read if there is one (non-blocking), and the handle after the call.
read(h) ==
    [outs |-> [s \in DOMAIN h.gen |->
                  IF h.rd[s] < Len(h.gen[s]) THEN <<h.gen[s][h.rd[s] + 1]>> ELSE <<>>],
     handle |-> [h EXCEPT !.rd = [s \in DOMAIN h.gen |->
                  IF h.rd[s] < Len(h.gen[s]) THEN h.rd[s] + 1 ELSE h.rd[s]]]]

\* GenerationHandle::read_all(): every sequence's generated tokens; it returns
\* once the generation is FINISHED.
read_all(h) ==
    [outs |-> h.gen,
     handle |-> [h EXCEPT !.rd = [s \in DOMAIN h.gen |-> Len(h.gen[s])]]]

\* The engine generates one token for every sequence of a running handle.
Generate(k, vocab) ==
    /\ k \in DOMAIN pipeline
    /\ pipeline[k].status = "RUNNING"
    /\ DOMAIN pipeline[k].gen # {}
    /\ \A s \in DOMAIN pipeline[k].gen :
          (Len(pipeline[k].gen[s]) + 1) * Len(pipeline[k].gen) <= MaxGen
    /\ \E toks \in [DOMAIN pipeline[k].gen -> vocab] :
          pipeline' = [pipeline EXCEPT ![k].gen =
                          [s \in DOMAIN pipeline[k].gen |->
                              Append(pipeline[k].gen[s], toks[s])]]
    /\ UNCHANGED <<calc, pc, notified, outputs, loopOut, host, resourceMap, probe, last,
                   trace>>

EngineStep(k) == Generate(k, Vocab)

\* The engine marks the generation FINISHED.
EngineFinish(k) ==
    /\ k \in DOMAIN pipeline
    /\ pipeline[k].status = "RUNNING"
    /\ pipeline' = [pipeline EXCEPT ![k].status = "FINISHED"]
    /\ UNCHANGED <<calc, pc, notified, outputs, loopOut, host, resourceMap, probe, last,
                   trace>>

\* ------------------------------------------------------------------ HttpLLMCalculator

\* Open (lines 391-400): bind to the resources found under the node's name.
Open(i) ==
    /\ host[i].life = "new"
    /\ IF i \in resourceMap
       THEN /\ calc' = [calc EXCEPT ![i].nodeResources = TRUE]
            /\ host' = [host EXCEPT ![i].life = "open"]
       ELSE /\ calc' = calc
            /\ host' = [host EXCEPT ![i].life = "openFailed"]
    /\ UNCHANGED <<pc, pipeline, notified, outputs, loopOut, resourceMap, probe, last, trace>>

\* Mutant: Close resets the generation handle and the streamer.
Close_Releases(i) ==
    /\ host[i].life \in {"open", "openFailed"}
    /\ pc[i] = "idle"
    /\ host' = [host EXCEPT ![i].life = "closed"]
    /\ calc' = [calc EXCEPT ![i].generationHandle = None, ![i].streamer = None]
    /\ UNCHANGED <<pc, pipeline, notified, outputs, loopOut, resourceMap, probe, last, trace>>

\* Close (lines 385-389): logs and returns OK.
Close(i) ==
    /\ host[i].life \in {"open", "openFailed"}
    /\ pc[i] = "idle"
    /\ host' = [host EXCEPT ![i].life = "closed"]
    /\ UNCHANGED <<calc, pc, pipeline, notified, outputs, loopOut, resourceMap, probe, last,
                   trace>>

\* Mutant: only the handle is checked for a second payload.
PayloadCheck_HandleOnly(c) == ~IsSet(c.generationHandle)

\* Mutant: the double-payload checks are missing.
PayloadCheck_Missing(c) == TRUE

\* "Check if we did not receive the payload twice" (lines 416-418)
PayloadCheck(c) ==
    /\ ~IsSet(c.request)
    /\ ~IsSet(c.generationHandle)
    /\ ~IsSet(c.streamer)

\* The checks before the generation cycle (lines 447-449)
PumpCheck(c) ==
    /\ IsSet(c.generationHandle)
    /\ IsSet(c.request)
    /\ IsSet(c.streamer)

\* Mutant: every instance holds the first handle the pipeline created.
AcceptPayload_SharedHandle(c, doc, now, newHandle) ==
    LET req == parse(doc)
        c1 == [c EXCEPT !.created = now, !.request = Some(req)]
    IN  IF ~DecodeOk(req)
        THEN [status |-> "ERROR", why |-> "decode", calc |-> c1,
              submit |-> FALSE, prompt |-> "", ops |-> <<"parse">>]
        ELSE [status |-> "CONTINUE", why |-> "",
              calc |-> [c1 EXCEPT !.generationHandle = Some(1),
                                  !.streamer = Some(NewStreamer)],
              submit |-> TRUE, prompt |-> req.messages[1]["content"],
              ops |-> <<"parse", "add_request", "notifyExecutorThread", "TextStreamer">>]

\* Mutant: the executor thread is notified before the request is added.
AcceptPayload_NotifyFirst(c, doc, now, newHandle) ==
    LET req == parse(doc)
        c1 == [c EXCEPT !.created = now, !.request = Some(req)]
    IN  IF ~DecodeOk(req)
        THEN [status |-> "ERROR", why |-> "decode", calc |-> c1,
              submit |-> FALSE, prompt |-> "", ops |-> <<"parse">>]
        ELSE [status |-> "CONTINUE", why |-> "",
              calc |-> [c1 EXCEPT !.generationHandle = Some(newHandle),
                                  !.streamer = Some(NewStreamer)],
              submit |-> TRUE, prompt |-> req.messages[1]["content"],
              ops |-> <<"parse", "notifyExecutorThread", "add_request", "TextStreamer">>]

\* The first iteration (lines 413-445) for a payload that passed PayloadCheck:
\* created and request are assigned before the request is decoded.  ops lists
\* the calls made, in the order of the code.
AcceptPayload(c, doc, now, newHandle) ==
    LET req == parse(doc)
        c1 == [c EXCEPT !.created = now, !.request = Some(req)]
    IN  IF ~DecodeOk(req)
        THEN [status |-> "ERROR", why |-> "decode", calc |-> c1,
              submit |-> FALSE, prompt |-> "", ops |-> <<"parse">>]
        ELSE [status |-> "CONTINUE", why |-> "",
              calc |-> [c1 EXCEPT !.generationHandle = Some(newHandle),
                                  !.streamer = Some(NewStreamer)],
              submit |-> TRUE, prompt |-> req.messages[1]["content"],
              ops |-> <<"parse", "add_request", "notifyExecutorThread", "TextStreamer">>]

\* Mutant: the result of NextAllowedInStream() is not assigned.
NextAllowedInStream_Discarded(ts) == ts

\* timestamp.NextAllowedInStream() (line 514)
NextAllowedInStream(ts) == ts + 1

\* Mutant: the no-input return advances the timestamp as the end of Process does.
ProcessBegin_NoInputAdvances(c, hasPayload, hasLoopback, doc, now, newHandle) ==
    LET stay == [status |-> "ERROR", why |-> "", calc |-> c,
                 submit |-> FALSE, prompt |-> "", ops |-> <<>>]
    IN  IF ~c.nodeResources THEN [stay EXCEPT !.why = "unbound"]
        ELSE IF ~hasPayload /\ ~hasLoopback
             THEN [stay EXCEPT !.status = "OK",
                               !.calc = [c EXCEPT !.timestamp = NextAllowedInStream(@)]]
        ELSE LET first == IF ~hasPayload THEN [stay EXCEPT !.status = "CONTINUE"]
                          ELSE IF ~PayloadCheck(c) THEN [stay EXCEPT !.why = "double"]
                          ELSE AcceptPayload(c, doc, now, newHandle)
             IN  IF first.status # "CONTINUE" THEN first
                 ELSE IF ~PumpCheck(first.calc)
                      THEN [first EXCEPT !.status = "ERROR", !.why = "unset"]
                      ELSE first

\* Mutant: created is assigned before the double-payload checks.
ProcessBegin_CreatedFirst(c, hasPayload, hasLoopback, doc, now, newHandle) ==
    LET stay == [status |-> "ERROR", why |-> "", calc |-> c,
                 submit |-> FALSE, prompt |-> "", ops |-> <<>>]
        stamped == [stay EXCEPT !.calc = [c EXCEPT !.created = now]]
    IN  IF ~c.nodeResources THEN [stay EXCEPT !.why = "unbound"]
        ELSE IF ~hasPayload /\ ~hasLoopback THEN [stay EXCEPT !.status = "OK"]
        ELSE LET first == IF ~hasPayload THEN [stay EXCEPT !.status = "CONTINUE"]
                          ELSE IF ~PayloadCheck(c) THEN [stamped EXCEPT !.why = "double"]
                          ELSE AcceptPayload(c, doc, now, newHandle)
             IN  IF first.status # "CONTINUE" THEN first
                 ELSE IF ~PumpCheck(first.calc)
                      THEN [first EXCEPT !.status = "ERROR", !.why = "unset"]
                      ELSE first

\* Mutant: a loopback packet without a request is a no-op that returns OK.
ProcessBegin_LoopbackNoop(c, hasPayload, hasLoopback, doc, now, newHandle) ==
    LET stay == [status |-> "ERROR", why |-> "", calc |-> c,
                 submit |-> FALSE, prompt |-> "", ops |-> <<>>]
    IN  IF ~c.nodeResources THEN [stay EXCEPT !.why = "unbound"]
        ELSE IF ~hasPayload /\ ~hasLoopback THEN [stay EXCEPT !.status = "OK"]
        ELSE LET first == IF ~hasPayload THEN [stay EXCEPT !.status = "CONTINUE"]
                          ELSE IF ~PayloadCheck(c) THEN [stay EXCEPT !.why = "double"]
                          ELSE AcceptPayload(c, doc, now, newHandle)
             IN  IF first.status # "CONTINUE" THEN first
                 ELSE IF ~PumpCheck(first.calc)
                      THEN [first EXCEPT !.status = "OK"]
                      ELSE first

\* Mutant: the no-input return comes before the check of nodeResources.
ProcessBegin_NoInputFirst(c, hasPayload, hasLoopback, doc, now, newHandle) ==
    LET stay == [status |-> "ERROR", why |-> "", calc |-> c,
                 submit |-> FALSE, prompt |-> "", ops |-> <<>>]
    IN  IF ~hasPayload /\ ~hasLoopback THEN [stay EXCEPT !.status = "OK"]
        ELSE IF ~c.nodeResources THEN [stay EXCEPT !.why = "unbound"]
        ELSE LET first == IF ~hasPayload THEN [stay EXCEPT !.status = "CONTINUE"]
                          ELSE IF ~PayloadCheck(c) THEN [stay EXCEPT !.why = "double"]
                          ELSE AcceptPayload(c, doc, now, newHandle)
             IN  IF first.status # "CONTINUE" THEN first
                 ELSE IF ~PumpCheck(first.calc)
                      THEN [first EXCEPT !.status = "ERROR", !.why = "unset"]
                      ELSE first

\* Process up to line 449: CONTINUE when the generation cycle is entered.
ProcessBegin(c, hasPayload, hasLoopback, doc, now, newHandle) ==
    LET stay == [status |-> "ERROR", why |-> "", calc |-> c,
                 submit |-> FALSE, prompt |-> "", ops |-> <<>>]
    IN  IF ~c.nodeResources THEN [stay EXCEPT !.why = "unbound"]
        ELSE IF ~hasPayload /\ ~hasLoopback THEN [stay EXCEPT !.status = "OK"]
        ELSE LET first == IF ~hasPayload THEN [stay EXCEPT !.status = "CONTINUE"]
                          ELSE IF ~PayloadCheck(c) THEN [stay EXCEPT !.why = "double"]
                          ELSE AcceptPayload(c, doc, now, newHandle)
             IN  IF first.status # "CONTINUE" THEN first
                 ELSE IF ~PumpCheck(first.calc)
                      THEN [first EXCEPT !.status = "ERROR", !.why = "unset"]
                      ELSE first

Packet(data, ts) == [data |-> data, ts |-> ts]

\* Mutant: the unary cycle re-arms the loop as the streaming cycle does.
UnaryCycle_Rearm(c, h) ==
    LET req == Val(c.request)
        ra == read_all(h)
        n == Len(ra.outs)
        completions == [s \in 1..n |-> decode(ra.outs[s])]
        response == serializeUnaryResponse(completions, c.created, req.model)
    IN  IF ~(n >= 1)
        THEN [status |-> "ERROR", why |-> "read_all_empty", branch |-> "unary",
              calc |-> c, handle |-> ra.handle, out |-> <<>>, loop |-> <<>>,
              fed |-> <<>>, puts |-> <<>>]
        ELSE [status |-> "OK", why |-> "", branch |-> "unary",
              calc |-> [c EXCEPT !.timestamp = NextAllowedInStream(c.timestamp)],
              handle |-> ra.handle,
              out |-> <<Packet(<<response>>, c.timestamp)>>,
              loop |-> <<Packet(TRUE, c.timestamp)>>,
              fed |-> <<>>, puts |-> <<>>]

\* The unary generation cycle (lines 452-479) once read_all has returned.
UnaryCycle(c, h) ==
    LET req == Val(c.request)
        ra == read_all(h)
        n == Len(ra.outs)
        completions == [s \in 1..n |-> decode(ra.outs[s])]
        response == serializeUnaryResponse(completions, c.created, req.model)
    IN  IF ~(n >= 1)
        THEN [status |-> "ERROR", why |-> "read_all_empty", branch |-> "unary",
              calc |-> c, handle |-> ra.handle, out |-> <<>>, loop |-> <<>>,
              fed |-> <<>>, puts |-> <<>>]
        ELSE [status |-> "OK", why |-> "", branch |-> "unary",
              calc |-> [c EXCEPT !.timestamp = NextAllowedInStream(c.timestamp)],
              handle |-> ra.handle,
              out |-> <<Packet(<<response>>, c.timestamp)>>, loop |-> <<>>,
              fed |-> <<>>, puts |-> <<>>]

\* Mutant: the stop chunk and the [DONE] frame are added as two packets.
StreamLast_TwoPackets(c, h) ==
    LET req == Val(c.request)
        response == packIntoServerSideEventMessage(
                        serializeStreamingChunk(<<>>, TRUE, c.created, req.model))
    IN  [status |-> "OK", why |-> "", branch |-> "stream_last",
         calc |-> [c EXCEPT !.timestamp = NextAllowedInStream(c.timestamp)],
         handle |-> h,
         out |-> <<Packet(response, c.timestamp),
                   Packet(packIntoServerSideEventMessage(DoneMessage), c.timestamp)>>,
         loop |-> <<>>,
         fed |-> <<>>, puts |-> <<>>]

\* Mutant: the last iteration re-arms the loop with a loopback packet.
StreamLast_Rearm(c, h) ==
    LET req == Val(c.request)
        response == packIntoServerSideEventMessage(
                        serializeStreamingChunk(<<>>, TRUE, c.created, req.model))
                    \o packIntoServerSideEventMessage(DoneMessage)
    IN  [status |-> "OK", why |-> "", branch |-> "stream_last",
         calc |-> [c EXCEPT !.timestamp = NextAllowedInStream(c.timestamp)],
         handle |-> h,
         out |-> <<Packet(response, c.timestamp)>>,
         loop |-> <<Packet(TRUE, c.timestamp)>>,
         fed |-> <<>>, puts |-> <<>>]

\* "Last iteration" (lines 486-492): the stop chunk and [DONE] in one packet,
\* no loopback packet.
StreamLast(c, h) ==
    LET req == Val(c.request)
        response == packIntoServerSideEventMessage(
                        serializeStreamingChunk(<<>>, TRUE, c.created, req.model))
                    \o packIntoServerSideEventMessage(DoneMessage)
    IN  [status |-> "OK", why |-> "", branch |-> "stream_last",
         calc |-> [c EXCEPT !.timestamp = NextAllowedInStream(c.timestamp)],
         handle |-> h,
         out |-> <<Packet(response, c.timestamp)>>, loop |-> <<>>,
         fed |-> <<>>, puts |-> <<>>]

\* Mutant: a read that returns no new token re-arms the loop and returns OK.
StreamNext_ZeroTokensRearm(c, h) ==
    LET req == Val(c.request)
        rd == read(h)
        fail == [status |-> "ERROR", why |-> "", branch |-> "stream_next",
                 calc |-> c, handle |-> rd.handle, out |-> <<>>, loop |-> <<>>,
                 fed |-> <<>>, puts |-> <<>>]
    IN  IF Len(rd.outs) # 1 THEN [fail EXCEPT !.why = "sequences"]
        ELSE IF Len(rd.outs[1]) = 0
             THEN [fail EXCEPT !.status = "OK",
                               !.calc = [c EXCEPT !.timestamp = NextAllowedInStream(c.timestamp)],
                               !.loop = <<Packet(TRUE, c.timestamp)>>]
        ELSE IF Len(rd.outs[1]) # 1 THEN [fail EXCEPT !.why = "tokens"]
        ELSE LET token == rd.outs[1][1]
                 p == put(Val(c.streamer), token)
                 response == packIntoServerSideEventMessage(
                                 serializeStreamingChunk(p.chunk, FALSE, c.created, req.model))
             IN  [status |-> "OK", why |-> "", branch |-> "stream_next",
                  calc |-> [c EXCEPT !.streamer = Some(p.streamer),
                                     !.timestamp = NextAllowedInStream(c.timestamp)],
                  handle |-> rd.handle,
                  out |-> IF p.has THEN <<Packet(response, c.timestamp)>> ELSE <<>>,
                  loop |-> <<Packet(TRUE, c.timestamp)>>,
                  fed |-> <<token>>,
                  puts |-> IF p.has THEN <<p.chunk>> ELSE <<>>]

\* Mutant: the loopback packet is added only when a chunk was emitted.
StreamNext_LoopOnlyWithChunk(c, h) ==
    LET req == Val(c.request)
        rd == read(h)
        fail == [status |-> "ERROR", why |-> "", branch |-> "stream_next",
                 calc |-> c, handle |-> rd.handle, out |-> <<>>, loop |-> <<>>,
                 fed |-> <<>>, puts |-> <<>>]
    IN  IF Len(rd.outs) # 1 THEN [fail EXCEPT !.why = "sequences"]
        ELSE IF Len(rd.outs[1]) # 1 THEN [fail EXCEPT !.why = "tokens"]
        ELSE LET token == rd.outs[1][1]
                 p == put(Val(c.streamer), token)
                 response == packIntoServerSideEventMessage(
                                 serializeStreamingChunk(p.chunk, FALSE, c.created, req.model))
             IN  [status |-> "OK", why |-> "", branch |-> "stream_next",
                  calc |-> [c EXCEPT !.streamer = Some(p.streamer),
                                     !.timestamp = NextAllowedInStream(c.timestamp)],
                  handle |-> rd.handle,
                  out |-> IF p.has THEN <<Packet(response, c.timestamp)>> ELSE <<>>,
                  loop |-> IF p.has THEN <<Packet(TRUE, c.timestamp)>> ELSE <<>>,
                  fed |-> <<token>>,
                  puts |-> IF p.has THEN <<p.chunk>> ELSE <<>>]

\* "Subsequent iteration" (lines 493-511): read one token, feed the streamer,
\* emit the chunk if there is one, always emit a loopback packet.
StreamNext(c, h) ==
    LET req == Val(c.request)
        rd == read(h)
        fail == [status |-> "ERROR", why |-> "", branch |-> "stream_next",
                 calc |-> c, handle |-> rd.handle, out |-> <<>>, loop |-> <<>>,
                 fed |-> <<>>, puts |-> <<>>]
    IN  IF Len(rd.outs) # 1 THEN [fail EXCEPT !.why = "sequences"]
        ELSE IF Len(rd.outs[1]) # 1 THEN [fail EXCEPT !.why = "tokens"]
        ELSE LET token == rd.outs[1][1]
                 p == put(Val(c.streamer), token)
                 response == packIntoServerSideEventMessage(
                                 serializeStreamingChunk(p.chunk, FALSE, c.created, req.model))
             IN  [status |-> "OK", why |-> "", branch |-> "stream_next",
                  calc |-> [c EXCEPT !.streamer = Some(p.streamer),
                                     !.timestamp = NextAllowedInStream(c.timestamp)],
                  handle |-> rd.handle,
                  out |-> IF p.has THEN <<Packet(response, c.timestamp)>> ELSE <<>>,
                  loop |-> <<Packet(TRUE, c.timestamp)>>,
                  fed |-> <<token>>,
                  puts |-> IF p.has THEN <<p.chunk>> ELSE <<>>]

\* The streaming generation cycle (lines 481-511).
StreamCycle(c, h) ==
    IF get_status(h) = "FINISHED" THEN StreamLast(c, h) ELSE StreamNext(c, h)

\* Number of generation handles add_request has created for instance i.
Owned(i) == Cardinality({k \in DOMAIN pipeline : pipeline[k].owner = i})

\* What accompanies a payload packet is drawn only when there is one.
PayloadInputs(hasPayload, S) == IF hasPayload THEN S ELSE {CHOOSE x \in S : TRUE}

\* Process, from its start to line 449.  The host delivers the payload packet,
\* a pending loopback packet, both or neither; up to maxSpurious times it
\* delivers a loopback packet the node has not emitted.
TickWith(i, hasPayload, hasLoopback, docs, times, seqs, maxSpurious) ==
    /\ pc[i] = "idle"
    /\ host[i].life \in {"open", "openFailed"}
    /\ \E doc \in PayloadInputs(hasPayload, docs),
       now \in PayloadInputs(hasPayload, times),
       nseq \in PayloadInputs(hasPayload, seqs) :
       /\ hasPayload => host[i].payloads < MaxPayloads
       /\ hasLoopback => (host[i].loopPending > 0 \/ host[i].spurious < maxSpurious)
       /\ LET r == ProcessBegin(calc[i], hasPayload, hasLoopback, doc, now,
                                Len(pipeline) + 1)
          IN  /\ calc' = [calc EXCEPT ![i] = r.calc]
              /\ pipeline' = IF r.submit
                             THEN Append(pipeline, NewHandle(i, r.prompt, nseq))
                             ELSE pipeline
              /\ notified' = [notified EXCEPT ![i] = IF r.submit THEN @ + 1 ELSE @]
              /\ pc' = [pc EXCEPT ![i] = IF r.status = "CONTINUE" THEN "pump" ELSE "idle"]
              /\ host' = [host EXCEPT
                     ![i].payloads = IF hasPayload THEN @ + 1 ELSE @,
                     ![i].loopPending = IF hasLoopback /\ @ > 0 THEN @ - 1 ELSE @,
                     ![i].spurious = IF hasLoopback /\ host[i].loopPending = 0
                                     THEN @ + 1 ELSE @]
              /\ last' = [last EXCEPT ![i] =
                     [payload |-> hasPayload, loopback |-> hasLoopback,
                      status |-> IF r.status = "CONTINUE" THEN "RUNNING" ELSE r.status,
                      branch |-> IF r.status = "OK" THEN "noinput" ELSE "none",
                      why |-> r.why,
                      out0 |-> Len(outputs[i]), loop0 |-> Len(loopOut[i]),
                      pipe0 |-> Owned(i), notified0 |-> notified[i],
                      ts0 |-> calc[i].timestamp,
                      pre |-> [request |-> IsSet(calc[i].request),
                               handle |-> IsSet(calc[i].generationHandle),
                               streamer |-> IsSet(calc[i].streamer)],
                      stream0 |-> FALSE, status0 |-> "none", unread0 |-> <<>>]]
              /\ trace' = [trace EXCEPT ![i].failed = @ \/ r.status = "ERROR",
                                        ![i].ops = @ \o r.ops]
       /\ UNCHANGED <<outputs, loopOut, resourceMap, probe>>

Tick(i, hasPayload, hasLoopback) ==
    TickWith(i, hasPayload, hasLoopback, Docs, Times, 0..MaxSeqs, 0)

TickBegin(i) == \E hasPayload \in BOOLEAN, hasLoopback \in BOOLEAN :
                    Tick(i, hasPayload, hasLoopback)

\* The calls a generation cycle makes on the handle: read_all (line 454),
\* get_status (line 486) and read (line 496).
HandleOps(branch) ==
    CASE branch = "unary" -> <<"read_all">>
      [] branch = "stream_last" -> <<"get_status">>
      [] branch = "stream_next" -> <<"get_status", "read">>

\* Process, from line 451 to its end.  The unary cycle waits in read_all until
\* the generation is FINISHED.
TickPump(i) ==
    /\ pc[i] = "pump"
    /\ LET c == calc[i]
           k == Val(c.generationHandle)
           h == pipeline[k]
           unary == ~Val(c.request).stream
       IN  /\ unary => get_status(h) = "FINISHED"
           /\ LET r == IF unary THEN UnaryCycle(c, h) ELSE StreamCycle(c, h)
              IN  /\ calc' = [calc EXCEPT ![i] = r.calc]
                  /\ pipeline' = [pipeline EXCEPT ![k] = r.handle]
                  /\ outputs' = [outputs EXCEPT ![i] = @ \o r.out]
                  /\ loopOut' = [loopOut EXCEPT ![i] = @ \o r.loop]
                  /\ host' = [host EXCEPT ![i].loopPending = @ + Len(r.loop)]
                  /\ last' = [last EXCEPT ![i].status = r.status,
                                          ![i].branch = r.branch,
                                          ![i].why = r.why,
                                          ![i].stream0 = ~unary,
                                          ![i].status0 = h.status,
                                          ![i].unread0 =
                                              [s \in DOMAIN h.gen |->
                                                  Len(h.gen[s]) - h.rd[s]]]
                  /\ trace' = [trace EXCEPT ![i].failed = @ \/ r.status = "ERROR",
                                            ![i].fed = @ \o r.fed,
                                            ![i].puts = @ \o r.puts,
                                            ![i].ops = @ \o HandleOps(r.branch)]
    /\ pc' = [pc EXCEPT ![i] = "idle"]
    /\ UNCHANGED <<notified, resourceMap, probe>>

Next ==
    \/ \E i \in Instances : Open(i)
    \/ \E i \in Instances : TickBegin(i)
    \/ \E i \in Instances : TickPump(i)
    \/ \E i \in Instances : Close(i)
    \/ \E k \in DOMAIN pipeline : EngineStep(k)
    \/ \E k \in DOMAIN pipeline : EngineFinish(k)

Spec == Init /\ [][Next]_vars

\* The same program on fewer inputs: a unary and a streaming request and one
\* that fails to decode, one clock reading, up to two sequences, two tokens.
FairDocs == {DocUnary, DocStream, DocNoModel}
FairTimes == {1}
FairSeqs == 0..2
FairVocab == {TokHel, TokLoSp}

FairTickBegin(i) == \E hasPayload \in BOOLEAN, hasLoopback \in BOOLEAN :
                        TickWith(i, hasPayload, hasLoopback, FairDocs, FairTimes, FairSeqs, 0)

FairEngineStep(k) == Generate(k, FairVocab)

FairNext ==
    \/ \E i \in Instances : Open(i)
    \/ \E i \in Instances : FairTickBegin(i)
    \/ \E i \in Instances : TickPump(i)
    \/ \E i \in Instances : Close(i)
    \/ \E k \in DOMAIN pipeline : FairEngineStep(k)
    \/ \E k \in DOMAIN pipeline : EngineFinish(k)

\* The host calls Process for a loopback packet the node has emitted.
TickLoopback(i) == TickWith(i, FALSE, TRUE, FairDocs, FairTimes, FairSeqs, 0)

\* The most handles the pipeline holds: every instance submits at most once.
MaxHandles == Cardinality(Instances)

\* Scheduling: a Process call that has begun runs to its end, the host delivers
\* every loopback packet, and the engine brings every generation to FINISHED.
Fairness ==
    /\ \A i \in Instances : WF_vars(TickPump(i)) /\ WF_vars(TickLoopback(i))
    /\ \A k \in 1..MaxHandles : WF_vars(EngineFinish(k))

FairSpec == Init /\ [][FairNext]_vars /\ Fairness

\* ------------------------------------------------------------------ unsolicited loopback

\* The program with a host that may also deliver a loopback packet the node
\* has not emitted, on the inputs of FairSpec.
LooseTickBegin(i) == \E hasPayload \in BOOLEAN, hasLoopback \in BOOLEAN :
                         TickWith(i, hasPayload, hasLoopback, FairDocs, FairTimes, FairSeqs,
                                  MaxSpurious)

LooseNext ==
    \/ \E i \in Instances : Open(i)
    \/ \E i \in Instances : LooseTickBegin(i)
    \/ \E i \in Instances : TickPump(i)
    \/ \E i \in Instances : Close(i)
    \/ \E k \in DOMAIN pipeline : FairEngineStep(k)
    \/ \E k \in DOMAIN pipeline : EngineFinish(k)

LooseSpec == Init /\ [][LooseNext]_vars

\* ------------------------------------------------------------------ two instances

\* Two bound instances of the node in one graph, sharing the pipeline.  Each
\* receives a unary or a streaming request with one sequence; the clock reads
\* i when the request of instance i arrives, and the engine generates "lo "
\* tokens for the request of instance 1 and newline tokens for that of
\* instance 2.
PairDocs == {DocUnary, DocStream}
PairSeqs == {1}
PairToken(owner) == IF owner = 1 THEN TokLoSp ELSE TokNl

PairInit == InitFor(Instances) /\ resourceMap = Instances

PairTickBegin(i) == \E hasPayload \in BOOLEAN, hasLoopback \in BOOLEAN :
                        TickWith(i, hasPayload, hasLoopback, PairDocs, {i}, PairSeqs, 0)

PairEngineStep(k) == Generate(k, {PairToken(pipeline[k].owner)})

PairNext ==
    \/ \E i \in Instances : Open(i)
    \/ \E i \in Instances : PairTickBegin(i)
    \/ \E i \in Instances : TickPump(i)
    \/ \E i \in Instances : Close(i)
    \/ \E k \in DOMAIN pipeline : PairEngineStep(k)
    \/ \E k \in DOMAIN pipeline : EngineFinish(k)

PairSpec == PairInit /\ [][PairNext]_vars

\* ------------------------------------------------------------------ TextStreamer on its own

\* A TextStreamer as constructed; input is the tokens put so far, result the
\* latest call: the streamer before it, the token, and what put returned.
StreamerInit ==
    /\ probe = [input |-> Some(<<>>), result |-> None]
    /\ Constructed({})

\* The tokens put: the engine's, and a byte-level token that ends inside a
\* two-byte character.
PutVocab == Vocab \cup {TokSpLead}

StreamerOf(p) == IF IsSet(p.result) THEN Val(p.result).after.streamer ELSE NewStreamer

\* streamer->put(token) (lines 327-344)
PutCall ==
    /\ Len(Val(probe.input)) < MaxPut
    /\ \E token \in PutVocab :
          probe' = [input |-> Some(Append(Val(probe.input), token)),
                    result |-> Some([before |-> StreamerOf(probe), token |-> token,
                                     after |-> put(StreamerOf(probe), token)])]
    /\ UNCHANGED <<calc, pc, pipeline, notified, outputs, loopOut, host, resourceMap, last,
                   trace>>

StreamerSpec == StreamerInit /\ [][PutCall]_vars

\* ------------------------------------------------------------------ parse() on its own

\* Values a member of a request document may have: every JSON type, ints on
\* both sides of 0, doubles at and next to the limits 0, 1.0 and 2.0, and
\* messages arrays with a good entry, a non-object entry and an entry with a
\* non-string value.
ParseValues ==
    {JNull, JBool(TRUE), JString("m"), JObject(<<>>),
     JInt(0 - 1), JInt(0), JInt(4),
     JDouble(0 - 1), JDouble(0), JDouble(FloatOne \div 2),
     JDouble(FloatOne), JDouble(FloatOne + 1), JDouble(FloatOne + 2),
     JDouble(2 * FloatOne), JDouble(2 * FloatOne + 1), JDouble(2 * FloatOne + 4),
     JArray(<<>>), JArray(<<Message>>), JArray(<<Message, JInt(1)>>),
     JArray(<<JObject(<< <<"role", JNull>> >>)>>)}

\* The member names parse() looks up, and one it does not.
RecognizedKeys ==
    {"stream", "messages", "model", "max_tokens", "repetition_penalty",
     "diversity_penalty", "length_penalty", "temperature", "top_p", "top_k",
     "seed", "best_of", "n", "ignore_eos"}
ParseKeys == RecognizedKeys \cup {"user"}

\* A valid document with one member put in front of it (FindMember finds the
\* first of a name), documents lacking model or messages, and non-objects.
ParseDocs ==
    {JObject(<< <<k, v>> >> \o BaseMembers) : k \in ParseKeys, v \in ParseValues}
    \cup {JObject(<< <<"model", JString("m")>> >>),
          JObject(<< <<"messages", JArray(<<Message>>)>> >>),
          JObject(BaseMembers), JArray(<<>>), JString("m"), JNull}

ParseInit ==
    /\ probe \in {[input |-> Some(doc), result |-> None] : doc \in ParseDocs}
    /\ Constructed({})

\* OpenAIChatCompletionsRequest(doc).parse() (lines 115-314).
ParseCall ==
    /\ probe.result = None
    /\ probe' = [probe EXCEPT !.result = Some(parse(Val(probe.input)))]
    /\ UNCHANGED <<calc, pc, pipeline, notified, outputs, loopOut, host, resourceMap, last,
                   trace>>

ParseSpec == ParseInit /\ [][ParseCall]_vars

\* ------------------------------------------------------------------ reading the outputs

\* A member of a JSON object written by a serializer.
Get(obj, key) == FindMember(obj.v, key)

\* The messages of one output packet: a unary packet is one JSON envelope, a
\* streaming packet is a run of SSE frames "data: " message "\n\n".
IsSse(data) ==
    /\ Len(data) % 3 = 0
    /\ \A k \in 1..(Len(data) \div 3) :
          data[3 * k - 2] = "data: " /\ data[3 * k] = "\n\n"

PacketMessages(data) ==
    IF Len(data) = 1 THEN data
    ELSE [k \in 1..(Len(data) \div 3) |-> data[3 * k - 1]]

RECURSIVE Messages(_)
Messages(packets) ==
    IF packets = <<>> THEN <<>>
    ELSE PacketMessages(Head(packets).data) \o Messages(Tail(packets))

\* Every message instance i has emitted, in order, and the JSON ones among them.
Emitted(i) == Messages(outputs[i])
IsDone(m) == m = DoneMessage
IsJson(m) == m.t = "object"
JsonEmitted(i) == SelectSeq(Emitted(i), IsJson)

Choice(m) == Get(m, "choices").v[1]
FinishReason(m) == Get(Choice(m), "finish_reason")
Delta(m) == Get(Choice(m), "delta")
IsStopChunk(m) == IsJson(m) /\ FinishReason(m) = JString("stop")

\* Instance i holds a request that passed decoding, in the given mode.
Accepted(i) ==
    /\ IsSet(calc[i].request)
    /\ IsSet(calc[i].generationHandle)
Streaming(i) == Accepted(i) /\ Val(calc[i].request).stream
Unary(i) == Accepted(i) /\ ~Val(calc[i].request).stream
HandleOf(i) == pipeline[Val(calc[i].generationHandle)]

\* What the latest Process call of instance i has added to its ports.
OutAdded(i) == Len(outputs[i]) - last[i].out0
LoopAdded(i) == Len(loopOut[i]) - last[i].loop0
EmittedNothing(i) == OutAdded(i) = 0 /\ LoopAdded(i) = 0
StartedNothing(i) == Owned(i) = last[i].pipe0 /\ notified[i] = last[i].notified0

\* ------------------------------------------------------------------ claims

\* C2. Exactly-once submission: add_request is called at most once for an
\* instance, and a Process call that carries a payload while the request, the
\* handle or the streamer is already set fails, calls neither add_request nor
\* the notifier, and emits nothing.
C2_ExactlyOnceSubmission ==
    \A i \in Instances :
        /\ Owned(i) <= 1
        /\ notified[i] <= 1
        /\ (/\ last[i].payload
            /\ calc[i].nodeResources
            /\ last[i].pre.request \/ last[i].pre.handle \/ last[i].pre.streamer)
           => /\ last[i].status = "ERROR"
              /\ StartedNothing(i)
              /\ EmittedNothing(i)

\* A second payload was delivered to an instance that had submitted a request.
C2_Witness ==
    \E i \in Instances :
        /\ last[i].payload /\ last[i].pre.handle
        /\ last[i].status = "ERROR"
        /\ Owned(i) = 1

\* C3. For a streaming request the stop chunk and [DONE] are the last two
\* messages ever emitted, in that order and in one packet, emitted by the tick
\* that saw the handle FINISHED; that tick adds no loopback packet, and no
\* later tick adds an output packet.
C3_TerminalFrames ==
    \A i \in Instances : Streaming(i) =>
        /\ \A p \in 1..Len(outputs[i]) :
              LET ms == PacketMessages(outputs[i][p].data)
              IN  (\E k \in 1..Len(ms) : IsDone(ms[k]) \/ IsStopChunk(ms[k]))
                  => /\ p = Len(outputs[i])
                     /\ IsSse(outputs[i][p].data)
                     /\ Len(ms) = 2 /\ IsStopChunk(ms[1]) /\ IsDone(ms[2])
                     /\ HandleOf(i).status = "FINISHED"
                     /\ \A q \in 1..Len(loopOut[i]) : loopOut[i][q].ts # outputs[i][p].ts
                     /\ host[i].loopPending = 0
        /\ (last[i].status = "OK" /\ last[i].status0 = "FINISHED")
           => /\ OutAdded(i) = 1 /\ LoopAdded(i) = 0
              /\ IsDone(Emitted(i)[Len(Emitted(i))])

\* A stream that emitted a content frame and then its terminal packet.
C3_Witness ==
    \E i \in Instances :
        /\ Streaming(i)
        /\ Len(Emitted(i)) >= 3
        /\ IsDone(Emitted(i)[Len(Emitted(i))])
        /\ IsStopChunk(Emitted(i)[Len(Emitted(i)) - 1])
        /\ last[i].payload /\ last[i].status = "ERROR"

\* C4. In streaming mode every JSON chunk emitted for a request except the last
\* has finish_reason null and carries delta.content; the last chunk (the one
\* followed by [DONE]) has finish_reason "stop" and an empty delta; a stop
\* chunk is never followed by a chunk with finish_reason null.
C4_FinishReason ==
    \A i \in Instances : Streaming(i) =>
        LET js == JsonEmitted(i)
            ms == Emitted(i)
        IN  /\ \A k \in 1..Len(js) :
                  /\ Get(js[k], "object") = JString("chat.completion.chunk")
                  /\ Len(Get(js[k], "choices").v) = 1
                  /\ IF FinishReason(js[k]) = JString("stop")
                     THEN k = Len(js) /\ Delta(js[k]) = JObject(<<>>)
                     ELSE /\ FinishReason(js[k]) = JNull
                          /\ Get(Delta(js[k]), "content").t = "string"
            /\ (ms # <<>> /\ IsDone(ms[Len(ms)]))
               => (js # <<>> /\ IsStopChunk(js[Len(js)]))

\* A finished stream with content chunks before its stop chunk.
C4_Witness ==
    \E i \in Instances :
        /\ Streaming(i)
        /\ Len(JsonEmitted(i)) >= 3
        /\ IsStopChunk(JsonEmitted(i)[Len(JsonEmitted(i))])
        /\ FinishReason(JsonEmitted(i)[1]) = JNull

\* C5. A Process call adds a loopback packet (value true) when and only when
\* it ran the streaming cycle to its end with the generation not yet FINISHED;
\* unary ticks, the terminal streaming tick, no-input ticks and failed ticks
\* add none.
C5_Loopback ==
    \A i \in Instances :
        /\ LoopAdded(i) \in {0, 1}
        /\ (pc[i] = "idle") =>
              ( LoopAdded(i) = 1
                <=> /\ last[i].status = "OK"
                    /\ last[i].stream0
                    /\ last[i].status0 = "RUNNING" )
        /\ (pc[i] = "pump") => LoopAdded(i) = 0
        /\ \A q \in 1..Len(loopOut[i]) : loopOut[i][q].data = TRUE
        /\ host[i].loopPending <= Len(loopOut[i])

\* A streaming tick that put a token into the streamer, got no chunk back and
\* re-armed; and the other kinds of tick have been seen as well.
C5_Witness ==
    \E i \in Instances :
        /\ pc[i] = "idle" /\ last[i].status = "OK"
        /\ last[i].stream0 /\ last[i].status0 = "RUNNING"
        /\ OutAdded(i) = 0 /\ LoopAdded(i) = 1
        /\ Len(outputs[i]) >= 1

\* The request held by instance i was rejected by the decoding of Process:
\* parse() returned false, messages is empty, or the first message has no
\* "content" key.
DecodeFailed(i) ==
    /\ IsSet(calc[i].request)
    /\ \/ ~Val(calc[i].request).ok
       \/ Len(Val(calc[i].request).messages) = 0
       \/ "content" \notin DOMAIN Val(calc[i].request).messages[1]

\* C6. When the payload fails decoding, the Process call returns an error, adds
\* no output and no loopback packet, and starts no generation: add_request and
\* the executor notifier are not called.
C6_DecodeFailure ==
    \A i \in Instances : DecodeFailed(i) =>
        /\ (last[i].payload /\ ~last[i].pre.request) => last[i].status = "ERROR"
        /\ last[i].status \in {"ERROR", "OK"}
        /\ last[i].status = "OK" => ~last[i].payload /\ ~last[i].loopback
        /\ outputs[i] = <<>> /\ loopOut[i] = <<>>
        /\ Owned(i) = 0 /\ notified[i] = 0
        /\ ~IsSet(calc[i].generationHandle) /\ ~IsSet(calc[i].streamer)
        /\ pc[i] = "idle"

\* The latest tick rejected a payload that parse() accepted and whose first
\* message has no "content" key.
C6_Witness ==
    \E i \in Instances :
        /\ DecodeFailed(i)
        /\ Val(calc[i].request).ok
        /\ Len(Val(calc[i].request).messages) = 1
        /\ last[i].payload /\ ~last[i].pre.request

\* The delta.content values instance i has emitted, in order.
HasContent(m) == IsJson(m) /\ Get(m, "delta") = JAbsent /\ Get(Delta(m), "content").t = "string"
RECURSIVE ContentsOf(_)
ContentsOf(ms) ==
    IF ms = <<>> THEN <<>>
    ELSE (IF HasContent(Head(ms)) THEN <<Get(Delta(Head(ms)), "content").v>> ELSE <<>>)
         \o ContentsOf(Tail(ms))
Contents(i) == ContentsOf(Emitted(i))

RECURSIVE Concat(_)
Concat(texts) == IF texts = <<>> THEN <<>> ELSE Head(texts) \o Concat(Tail(texts))

StreamDone(i) ==
    /\ Streaming(i)
    /\ Emitted(i) # <<>>
    /\ IsDone(Emitted(i)[Len(Emitted(i))])

\* C7. For a streaming request whose tokens detokenize incrementally to "hel",
\* "lo ", "world" before the handle reports FINISHED, all generated text has
\* reached the output when the stop frame is emitted: the emitted contents
\* concatenate to "hello world".
C7_AllTextBeforeStop ==
    \A i \in Instances :
        (/\ StreamDone(i)
         /\ HandleOf(i).gen = <<(<<TokHel, TokLoSp, TokWorld>>)>>
         /\ trace[i].fed = <<TokHel, TokLoSp, TokWorld>>)
        => Concat(Contents(i)) = decode(<<TokHel, TokLoSp, TokWorld>>)

\* C8. In streaming mode the delta.content values emitted for a request are,
\* in order and without omission or duplication, the chunks the streamer's put
\* calls returned.
C8_ContentsArePutResults ==
    \A i \in Instances : Streaming(i) =>
        /\ Contents(i) = trace[i].puts
        /\ Len(JsonEmitted(i)) = Len(trace[i].puts) + (IF StreamDone(i) THEN 1 ELSE 0)

\* Three tokens were fed to the streamer; two of the put calls returned a chunk.
C8_Witness ==
    \E i \in Instances :
        /\ Streaming(i)
        /\ Len(trace[i].fed) = 3
        /\ Len(trace[i].puts) = 2
        /\ Len(Contents(i)) = 2

\* C9. created is assigned on the tick that accepts the payload and is never
\* changed afterwards: every frame and envelope emitted for the request carries
\* the value held by the instance, also after a later Process call that carries
\* a second payload and is rejected.
C9_SameCreated ==
    \A i \in Instances :
        \A k \in 1..Len(JsonEmitted(i)) :
            Get(JsonEmitted(i)[k], "created") = JInt(calc[i].created)

C9_CreatedKept ==
    \A i \in Instances :
        IsSet(calc[i].request) => calc'[i].created = calc[i].created

C9_CreatedOnce == [](C9_SameCreated) /\ [][C9_CreatedKept]_vars

\* Frames were emitted before and after a rejected second payload.
C9_Witness ==
    \E i \in Instances :
        /\ Len(JsonEmitted(i)) >= 2
        /\ host[i].payloads = 2
        /\ last[i].loopback /\ last[i].out0 >= 1 /\ OutAdded(i) = 1

\* C10. In unary mode, when read_all returns N >= 1 sequences the one envelope
\* has exactly N choices, with index 0..N-1 in the order of the sequences, each
\* with finish_reason "stop" and the content decoded from that sequence's
\* tokens; when read_all returns no sequence the tick fails and emits nothing.
C10_UnaryChoices ==
    \A i \in Instances : Unary(i) =>
        LET gen == HandleOf(i).gen
        IN  /\ Len(outputs[i]) <= 1
            /\ \A p \in 1..Len(outputs[i]) :
                  LET e == outputs[i][p].data[1]
                      choices == Get(e, "choices").v
                  IN  /\ Len(outputs[i][p].data) = 1
                      /\ Get(e, "object") = JString("chat.completion")
                      /\ Len(gen) >= 1
                      /\ Len(choices) = Len(gen)
                      /\ \A k \in 1..Len(choices) :
                            /\ Get(choices[k], "index") = JInt(k - 1)
                            /\ Get(choices[k], "finish_reason") = JString("stop")
                            /\ Get(Get(choices[k], "message"), "content")
                                  = JString(decode(gen[k]))
            /\ (pc[i] = "idle" /\ last[i].status0 = "FINISHED")
               => IF Len(gen) >= 1
                  THEN last[i].status = "OK" /\ Len(outputs[i]) = 1
                  ELSE last[i].status = "ERROR" /\ outputs[i] = <<>> /\ loopOut[i] = <<>>

\* An envelope with three choices whose contents differ.
C10_Witness ==
    \E i \in Instances :
        /\ Unary(i)
        /\ Len(outputs[i]) = 1
        /\ Len(HandleOf(i).gen) = 3
        /\ decode(HandleOf(i).gen[1]) # decode(HandleOf(i).gen[2])
        /\ decode(HandleOf(i).gen[2]) # decode(HandleOf(i).gen[3])

\* The request of instance i is complete: one chat.completion envelope in unary
\* mode, at least two SSE frames of which the last is [DONE] in streaming mode.
C1_Completed(i) ==
    IF Val(calc[i].request).stream
    THEN /\ \A p \in 1..Len(outputs[i]) : IsSse(outputs[i][p].data)
         /\ Len(Emitted(i)) >= 2
         /\ IsDone(Emitted(i)[Len(Emitted(i))])
    ELSE /\ Len(outputs[i]) = 1
         /\ Len(outputs[i][1].data) = 1
         /\ Get(outputs[i][1].data[1], "object") = JString("chat.completion")

\* The generation is FINISHED, no Process call is running and the host has
\* delivered every loopback packet the node emitted.
C1_Delivered(i) ==
    /\ host[i].life = "open"
    /\ pc[i] = "idle"
    /\ get_status(HandleOf(i)) = "FINISHED"
    /\ host[i].loopPending = 0

\* C1. For every request that passed decode, once the engine has marked the
\* generation FINISHED and the host has called Process for every loopback
\* packet emitted, the request is complete: in unary mode exactly one
\* chat.completion envelope has been emitted; in streaming mode at least two
\* SSE frames have been emitted and the last one is "data: [DONE]\n\n".
C1_EveryRequestCompletes ==
    \A i \in Instances : (Accepted(i) /\ C1_Delivered(i)) => C1_Completed(i)

\* The double d lies outside [0, max].
OutsideRange(d, max) == d.v < 0 \/ d.v > max

MessagesListed(m) ==
    \/ m.t # "array"
    \/ \E k \in 1..Len(m.v) :
          \/ m.v[k].t # "object"
          \/ \E j \in 1..Len(m.v[k].v) : m.v[k].v[j][2].t # "string"

WrongType(doc, key, type) ==
    FindMember(doc.v, key).t \notin {"absent", type}

\* The conditions under which the request decoder is specified to reject.
Listed(doc) ==
    \/ doc.t # "object"
    \/ /\ doc.t = "object"
       /\ \/ MessagesListed(FindMember(doc.v, "messages"))
          \/ FindMember(doc.v, "model").t # "string"
          \/ WrongType(doc, "stream", "bool") \/ WrongType(doc, "ignore_eos", "bool")
          \/ \E k \in {"max_tokens", "top_k", "seed", "best_of", "n"} :
                WrongType(doc, k, "int")
          \/ \E k \in {"repetition_penalty", "diversity_penalty", "length_penalty",
                      "temperature", "top_p"} : WrongType(doc, k, "double")
          \/ LET it == FindMember(doc.v, "max_tokens") IN it.t = "int" /\ it.v <= 0
          \/ LET it == FindMember(doc.v, "temperature")
             IN  it.t = "double" /\ OutsideRange(it, 2 * FloatOne)
          \/ LET it == FindMember(doc.v, "top_p")
             IN  it.t = "double" /\ OutsideRange(it, FloatOne)

\* C11. The request decoder rejects a document exactly when one of the listed
\* conditions holds (not an object; messages missing, not an array, with a
\* non-object entry or a non-string value; model missing or not a string; a
\* recognized field of the wrong JSON type; max_tokens <= 0; temperature
\* outside [0,2]; top_p outside [0,1]); every other document is accepted.
C11_RejectsExactlyListed ==
    IsSet(probe.result) =>
        (~Val(probe.result).ok <=> Listed(Val(probe.input)))

\* C12. Open succeeds, binding the instance to its resources, exactly when the
\* resource map has an entry for the node's name; otherwise Open fails and the
\* instance stays unbound, and every Process call on an unbound instance fails
\* without submitting a request or emitting anything.
C12_OpenBinds ==
    \A i \in Instances :
        /\ host[i].life = "open" => (i \in resourceMap /\ calc[i].nodeResources)
        /\ host[i].life = "openFailed" => (i \notin resourceMap /\ ~calc[i].nodeResources)
        /\ ~calc[i].nodeResources =>
              /\ last[i].status \in {"NONE", "ERROR"}
              /\ pc[i] = "idle"
              /\ outputs[i] = <<>> /\ loopOut[i] = <<>>
              /\ Owned(i) = 0 /\ notified[i] = 0
              /\ calc[i] = NewCalculator

\* Open has failed and a Process call carrying a payload has failed after it.
C12_Witness ==
    \E i \in Instances :
        /\ host[i].life = "openFailed"
        /\ last[i].payload /\ last[i].status = "ERROR" /\ last[i].why = "unbound"

\* The latest Process call of instance i came without a payload on a bound
\* instance that had no request yet.
UninitializedTick(i) ==
    /\ last[i].status # "NONE"
    /\ ~last[i].payload
    /\ ~last[i].pre.request
    /\ calc[i].nodeResources

NoOp(i) ==
    /\ EmittedNothing(i) /\ StartedNothing(i)
    /\ pc[i] = "idle"
    /\ calc[i] = [NewCalculator EXCEPT !.nodeResources = TRUE]

\* C13 as stated: while no request has been submitted, a Process call without
\* a payload, with or without a loopback packet, returns OK, emits nothing and
\* leaves the state unchanged.
C13_NoPayloadIsNoOp ==
    \A i \in Instances :
        UninitializedTick(i) => (last[i].status = "OK" /\ NoOp(i))

\* C13. While no request has been submitted, a Process call with neither a
\* payload nor a loopback packet returns OK, and one with a loopback packet but
\* no payload fails with an error; both emit nothing and leave the state
\* unchanged.
C13_NoPayloadChangesNothing ==
    \A i \in Instances :
        UninitializedTick(i) =>
            /\ last[i].status = (IF last[i].loopback THEN "ERROR" ELSE "OK")
            /\ NoOp(i)

\* A loopback packet has been delivered to a bound instance without a request.
C13_Witness ==
    \E i \in Instances :
        /\ UninitializedTick(i)
        /\ last[i].loopback
        /\ host[i].spurious = 1

\* The latest Process call of instance i has ended; it was a streaming tick on
\* a handle that was not FINISHED and whose one sequence had no new token.
ZeroTokenTick(i) ==
    /\ pc[i] = "idle"
    /\ last[i].branch = "stream_next"
    /\ last[i].status0 = "RUNNING"
    /\ last[i].unread0 = <<0>>

NoInputCall(i) ==
    /\ calc[i].nodeResources
    /\ pc[i] = "idle"
    /\ host'[i].payloads = host[i].payloads
    /\ host'[i].loopPending = host[i].loopPending
    /\ host'[i].spurious = host[i].spurious
    /\ host'[i].life = host[i].life
    /\ ~last'[i].payload /\ ~last'[i].loopback
    /\ (last'[i] # last[i] \/ calc'[i] # calc[i])

C15_NoInputStep ==
    \A i \in Instances :
        NoInputCall(i) =>
            /\ last'[i].status = "OK"
            /\ pc'[i] = "idle"
            /\ calc'[i] = calc[i]
            /\ outputs' = outputs /\ loopOut' = loopOut
            /\ pipeline' = pipeline /\ notified' = notified

\* C15. A Process call on a bound instance that receives neither a payload nor
\* a loopback packet returns OK and is a no-op in every state: it emits no
\* output and no loopback, calls no engine operation, and leaves request,
\* handle, detokenizer, created and the timestamp unchanged.
C15_NoInputNoOp == [][C15_NoInputStep]_vars

\* A no-input Process call has been made mid-stream: a chunk has been emitted
\* and a loopback packet is waiting.
C15_Witness ==
    \E i \in Instances :
        /\ Streaming(i)
        /\ last[i].branch = "noinput" /\ last[i].status = "OK"
        /\ Len(outputs[i]) >= 1
        /\ host[i].loopPending = 1

\* The latest put call: the printed length before it and the detokenized
\* buffer T after the token was appended.
PutBefore == Val(probe.result).before
PutAfter == Val(probe.result).after
PutText == decode(Append(PutBefore.tokenCache, Val(probe.result).token))
EndsWithNewline(text) == text # <<>> /\ text[Len(text)] = NEWLINE

\* C16. After any sequence of put calls printed_len is at most the length of
\* the text obtained by detokenizing the current token buffer; and right after
\* a put whose text ends with a newline the buffer is empty and printed_len = 0.
C16_PrintLenBounded ==
    IsSet(probe.result) =>
        /\ PutAfter.streamer.printLen <= Len(decode(PutAfter.streamer.tokenCache))
        /\ PutBefore.printLen <= Len(PutText)
        /\ EndsWithNewline(PutText) =>
              (PutAfter.streamer.tokenCache = <<>> /\ PutAfter.streamer.printLen = 0)

\* A newline was put after text had been printed: the reset takes printed_len
\* from a positive value to 0.
C16_Witness ==
    /\ IsSet(probe.result)
    /\ EndsWithNewline(PutText)
    /\ PutBefore.printLen > 0
    /\ PutAfter.streamer.printLen = 0

\* T[printed_len..] contains a space.
SpaceInRest(text, printedLen) ==
    \E k \in 1..Len(text) : k > printedLen /\ text[k] = SPACE

\* T[printed_len..]
Rest(text, printedLen) == [k \in 1..(Len(text) - printedLen) |-> text[printedLen + k]]

\* C17. put returns a chunk exactly when T (the detokenized buffer after the
\* token was appended) is non-empty and ends with a newline, or T does not end
\* with U+FFFD and T[printed_len..] contains a space; the chunk is always
\* T[printed_len..]. Otherwise, in particular whenever T ends with U+FFFD, put
\* returns nothing and leaves printed_len unchanged; in the space case
\* printed_len becomes len(T).
C17_PutChunk ==
    IsSet(probe.result) =>
        LET T == PutText
            endsFffd == Len(T) >= 3 /\ <<T[Len(T) - 2], T[Len(T) - 1], T[Len(T)]>> = <<239, 191, 189>>
            newline == EndsWithNewline(T)
            space == ~endsFffd /\ SpaceInRest(T, PutBefore.printLen)
        IN  /\ PutAfter.has <=> (newline \/ space)
            /\ PutAfter.has => PutAfter.chunk = Rest(T, PutBefore.printLen)
            /\ ~PutAfter.has => PutAfter.streamer.printLen = PutBefore.printLen
            /\ endsFffd => ~PutAfter.has
            /\ (space /\ ~newline) => PutAfter.streamer.printLen = Len(T)

\* A put whose text has an unprinted space but ends with U+FFFD returned
\* nothing.
C17_Witness ==
    /\ IsSet(probe.result)
    /\ EndsWithReplacement(PutText)
    /\ SpaceInRest(PutText, PutBefore.printLen)
    /\ ~PutAfter.has

\* C18. The timestamp advances by exactly one allowed step at the end of each
\* Process call that emitted an output or loopback packet, and is left
\* unchanged by every Process call that emitted nothing (no-input calls and
\* calls that fail with an error).
C18_TimestampSteps ==
    \A i \in Instances :
        /\ calc[i].timestamp =
              (IF OutAdded(i) + LoopAdded(i) > 0 THEN last[i].ts0 + 1 ELSE last[i].ts0)
        /\ (pc[i] = "idle" /\ last[i].status = "OK" /\ last[i].branch # "noinput")
              => OutAdded(i) + LoopAdded(i) > 0
        /\ last[i].status \in {"ERROR", "RUNNING", "NONE"} => EmittedNothing(i)
        /\ \A p \in 1..Len(outputs[i]) : outputs[i][p].ts < calc[i].timestamp
        /\ \A p \in 1..Len(loopOut[i]) : loopOut[i][p].ts < calc[i].timestamp

\* After two emitting calls a call failed and left the timestamp at 2.
C18_Witness ==
    \E i \in Instances :
        /\ last[i].status = "ERROR"
        /\ last[i].ts0 = 2
        /\ calc[i].timestamp = 2
        /\ Len(loopOut[i]) = 2

\* C19. In unary mode no envelope is emitted before the engine has marked the
\* generation complete: the call waits in read_all, and the single envelope is
\* emitted only after read_all has returned, by a call that emits no loopback.
C19_UnaryAfterFinish ==
    \A i \in Instances : Unary(i) =>
        /\ get_status(HandleOf(i)) = "RUNNING" => (outputs[i] = <<>> /\ pc[i] = "pump")
        /\ outputs[i] # <<>> =>
              /\ get_status(HandleOf(i)) = "FINISHED"
              /\ \A s \in DOMAIN HandleOf(i).gen :
                    HandleOf(i).rd[s] = Len(HandleOf(i).gen[s])
        /\ loopOut[i] = <<>>
        /\ host[i].loopPending = 0

\* The envelope of a unary request carries text the engine generated while the
\* call was waiting in read_all.
C19_Witness ==
    \E i \in Instances :
        /\ Unary(i)
        /\ Len(outputs[i]) = 1
        /\ last[i].payload /\ last[i].status = "OK" /\ last[i].status0 = "FINISHED"
        /\ Len(HandleOf(i).gen) = 1
        /\ Len(HandleOf(i).gen[1]) >= 2

\* C20 as stated: once the host has invoked Close on an instance, in any state
\* including mid-stream, the instance's generation handle and streamer are
\* released (unset).
C20_CloseReleases ==
    \A i \in Instances :
        host[i].life = "closed" =>
            (~IsSet(calc[i].generationHandle) /\ ~IsSet(calc[i].streamer))

C20_CloseStep ==
    \A i \in Instances :
        (host[i].life # "closed" /\ host'[i].life = "closed") =>
            /\ calc'[i] = calc[i]
            /\ pipeline' = pipeline
            /\ outputs' = outputs /\ loopOut' = loopOut /\ notified' = notified

\* C20. When the host invokes Close on an instance, in any state including
\* mid-stream, Close itself releases nothing: the instance's generation handle
\* and streamer, and the generation in the pipeline, are left as they were.
C20_CloseKeeps == [][C20_CloseStep]_vars

\* An instance was closed mid-stream: its handle is still RUNNING, its streamer
\* holds a token, and a loopback packet is undelivered.
C20_Witness ==
    \E i \in Instances :
        /\ host[i].life = "closed"
        /\ Streaming(i)
        /\ get_status(HandleOf(i)) = "RUNNING"
        /\ IsSet(calc[i].streamer)
        /\ Val(calc[i].streamer).tokenCache # <<>>
        /\ host[i].loopPending = 1

SubmissionOps == <<"parse", "add_request", "notifyExecutorThread", "TextStreamer">>
ReadOps == {"read_all", "get_status", "read"}

\* C21. On the submission tick the operations occur in the order decode,
\* add_request, notify executor, construct detokenizer, and only then the first
\* read on the handle: the executor is notified exactly once per accepted
\* request, after add_request and before any read on that request's handle.
C21_SubmissionOrder ==
    \A i \in Instances :
        LET ops == trace[i].ops
        IN  /\ Accepted(i) =>
                  /\ Len(ops) >= Len(SubmissionOps)
                  /\ SubSeq(ops, 1, Len(SubmissionOps)) = SubmissionOps
                  /\ \A k \in (Len(SubmissionOps) + 1)..Len(ops) : ops[k] \in ReadOps
                  /\ notified[i] = 1 /\ Owned(i) = 1
                  /\ pc[i] = "idle" => Len(ops) > Len(SubmissionOps)
            /\ ~Accepted(i) =>
                  /\ \A k \in 1..Len(ops) : ops[k] = "parse"
                  /\ notified[i] = 0 /\ Owned(i) = 0

\* A unary request has been submitted and its one read_all has returned.
C21_Witness ==
    \E i \in Instances :
        /\ Unary(i)
        /\ trace[i].ops = SubmissionOps \o <<"read_all">>
        /\ Len(outputs[i]) = 1

IsPrefix(a, b) == Len(a) <= Len(b) /\ SubSeq(b, 1, Len(a)) = a

\* C22. In streaming mode, under every interleaving of engine steps with
\* Process calls, the tokens fed to the streamer are the tokens the engine
\* generated for the request, each once and in generation order, and all of
\* them have been fed when the stop frame is emitted: none is skipped because
\* the handle was already FINISHED when the call ran.
C22_EveryTokenRead ==
    \A i \in Instances :
        (Streaming(i) /\ Len(HandleOf(i).gen) = 1) =>
            /\ IsPrefix(trace[i].fed, HandleOf(i).gen[1])
            /\ StreamDone(i) => trace[i].fed = HandleOf(i).gen[1]

\* The generation add_request created for instance i, whatever handle the
\* instance holds.
OwnGeneration(i) == pipeline[CHOOSE k \in DOMAIN pipeline : pipeline[k].owner = i]

\* The chunks a fresh TextStreamer returns for the tokens, put one by one.
RECURSIVE AloneChunks(_, _)
AloneChunks(st, tokens) ==
    IF tokens = <<>> THEN <<>>
    ELSE LET p == put(st, Head(tokens))
         IN  (IF p.has THEN <<p.chunk>> ELSE <<>>) \o AloneChunks(p.streamer, Tail(tokens))

\* The messages an instance running alone emits for request req accepted at
\* time created: in streaming mode, after reading tokens and, if
\* stopped, seeing the generation FINISHED; in unary mode, if answered, for
\* the generated sequences gen.
AloneMessages(req, created, tokens, stopped, gen, answered) ==
    IF req.stream
    THEN LET chunks == AloneChunks(NewStreamer, tokens)
         IN  [k \in 1..Len(chunks) |->
                 serializeStreamingChunk(chunks[k], FALSE, created, req.model)]
             \o (IF stopped
                 THEN <<serializeStreamingChunk(<<>>, TRUE, created, req.model),
                        DoneMessage>>
                 ELSE <<>>)
    ELSE IF answered
         THEN <<serializeUnaryResponse([s \in 1..Len(gen) |-> decode(gen[s])],
                                       created, req.model)>>
         ELSE <<>>

\* The latest call instance i has made on its request, pipeline or handle.
LastOp(i) == trace[i].ops[Len(trace[i].ops)]

\* The frames of every instance are those of a run alone on its own request
\* and its own generation's tokens.
C23_OwnFrames ==
    \A i \in Instances :
        /\ ~Accepted(i) => outputs[i] = <<>>
        /\ Accepted(i) =>
              LET own == OwnGeneration(i)
                  n == Len(trace[i].fed)
              IN  /\ Owned(i) = 1
                  /\ calc[i].created = i
                  /\ own.rd[1] <= Len(own.gen[1])
                  /\ Streaming(i) => own.rd[1] = n
                  /\ Emitted(i) =
                        AloneMessages(Val(calc[i].request), calc[i].created,
                                      SubSeq(own.gen[1], 1, n),
                                      LastOp(i) = "get_status",
                                      own.gen,
                                      LastOp(i) = "read_all")

\* A step that changes anything of instance i is a Process, Open or Close
\* call of instance i, and changes nothing of the other instance nor the
\* other instance's generation.
C23_OwnStep ==
    \A i, j \in Instances :
        (/\ i # j
         /\ \/ calc'[i] # calc[i]
            \/ outputs'[i] # outputs[i]
            \/ loopOut'[i] # loopOut[i]
            \/ pc'[i] # pc[i])
        => /\ pc'[i] # pc[i] \/ last'[i] # last[i] \/ host'[i] # host[i]
           /\ calc'[j] = calc[j] /\ outputs'[j] = outputs[j] /\ loopOut'[j] = loopOut[j]
           /\ pc'[j] = pc[j] /\ last'[j] = last[j] /\ trace'[j] = trace[j]
           /\ \A k \in DOMAIN pipeline : pipeline[k].owner = j => pipeline'[k] = pipeline[k]

\* C23. When the Process calls of two instances serving different requests
\* are interleaved arbitrarily, each instance's request, handle, streamer,
\* created and timestamp are changed only by its own calls, and each instance
\* emits the frames it would emit alone for the same request and the same
\* tokens of its own generation.
C23_Isolation == [](C23_OwnFrames) /\ [][C23_OwnStep]_vars

\* Both instances stream at once: each has emitted a content frame of its own
\* text while the other's generation was still running or unread.
C23_Witness ==
    /\ Streaming(1) /\ Streaming(2)
    /\ Len(Contents(1)) >= 1 /\ Len(Contents(2)) >= 1
    /\ Contents(1) # Contents(2)
    /\ StreamDone(1) /\ ~StreamDone(2)
    /\ calc[1].generationHandle # calc[2].generationHandle

\* Instance i holds a request but no handle.
RequestOnly(i) == IsSet(calc[i].request) /\ ~IsSet(calc[i].generationHandle)

\* The submission of instance i failed in decoding: the one call the instance
\* made for a request is parse, and a Process call has returned an error.
SubmissionFailed(i) ==
    /\ trace[i].failed
    /\ trace[i].ops = <<"parse">>
    /\ DecodeFailed(i)

\* C24. In every reachable state the streamer being set implies the handle is
\* set, and the handle being set implies the request is set; the request is
\* set while handle and streamer are unset only after a submission that failed
\* decoding, and in that state every later Process call with a payload or a
\* loopback packet fails without calling add_request.
C24_FieldOrder ==
    \A i \in Instances :
        /\ IsSet(calc[i].streamer) => IsSet(calc[i].generationHandle)
        /\ IsSet(calc[i].generationHandle) => IsSet(calc[i].request)
        /\ RequestOnly(i) =>
              /\ ~IsSet(calc[i].streamer)
              /\ SubmissionFailed(i)
              /\ Owned(i) = 0 /\ notified[i] = 0
              /\ outputs[i] = <<>> /\ loopOut[i] = <<>>
              /\ pc[i] = "idle"
              /\ (last[i].pre.request /\ (last[i].payload \/ last[i].loopback))
                    => last[i].status = "ERROR"

\* After a submission that failed decoding, a second payload and a loopback
\* packet have both been delivered, the loopback packet last.
C24_Witness ==
    \E i \in Instances :
        /\ RequestOnly(i)
        /\ host[i].payloads = 2 /\ host[i].spurious = 1
        /\ last[i].pre.request /\ last[i].loopback /\ ~last[i].payload
        /\ last[i].status = "ERROR"

\* The timestamps of the packets are strictly increasing.
Increasing(packets) ==
    \A p, q \in 1..Len(packets) : p < q => packets[p].ts < packets[q].ts

\* C25. Every Process call adds at most one packet to the output port and at
\* most one to the loopback port, and on each port the timestamps of
\* successive packets are strictly increasing: no two packets of a port share
\* a timestamp.
C25_PortTimestamps ==
    \A i \in Instances :
        /\ OutAdded(i) \in {0, 1}
        /\ LoopAdded(i) \in {0, 1}
        /\ Increasing(outputs[i])
        /\ Increasing(loopOut[i])

\* Three packets on the loopback port and two on the output port, the output
\* packets not at successive timestamps: a call between them added a loopback
\* packet only.
C25_Witness ==
    \E i \in Instances :
        /\ Len(loopOut[i]) = 3
        /\ Len(outputs[i]) = 2
        /\ outputs[i][2].ts > outputs[i][1].ts + 1

====
